---- MODULE Spec2Model ----
(***************************************************************************)
(* Model of the rotation orchestrator of ip_changer.py: AutoChanger.run_loop *)
(* with its three adapters (run_once_tor, run_once_proxy, run_once_vpn),    *)
(* the cooperative wait _wait_or_stop, and the asynchronous signal handler. *)
(* One action is one step of the control thread between two points where   *)
(* the signal handler can run.  Time is counted in whole seconds inside     *)
(* time.sleep(n) and in poll periods of half a second inside _wait_or_stop. *)
(* A thread inside time.sleep(n) takes no step of its own: the sleep ends   *)
(* in one step, and a signal that arrives during it fixes how much of it is *)
(* left at that instant.                                                    *)
(***************************************************************************)
EXTENDS Integers, Sequences, FiniteSets, TLC

\* ---------------------------------------------------------------- bounds
MaxCount == 2
MaxInterval == 1
MaxSettle == 1
MaxFileLen == 2
MaxOvpns == 1

\* Iterations explored when --count is 0 (unbounded).
MaxIter == MaxCount

\* ------------------------------------------------------ program constants
MinVpnWait == 5
VpnCooldown == 2
PollsPerSecond == 2
TermTimeout == 10

Modes == {"tor", "proxy", "vpn", "all"}

\* cmd_try of tor_reload_service
cmd_try == << <<"systemctl", "restart", "tor">>, <<"service", "tor", "restart">> >>

\* ------------------------------------------------------------ proxy list
\* A line of the proxy-list file is a sequence of characters (the trailing
\* newline, which strip() removes, is left out).
FileLines ==
    { <<>>, <<" ">>, <<"#", "a">>, <<" ", "#", "a">>, <<"a">>, <<"a", " ">>,
      <<" ", "b">> }

RECURSIVE SeqsUpTo(_, _)
SeqsUpTo(S, n) ==
    IF n = 0 THEN { <<>> }
    ELSE LET shorter == SeqsUpTo(S, n - 1)
         IN  shorter \cup { Append(s, x) : s \in shorter, x \in S }

ProxyFiles == SeqsUpTo(FileLines, MaxFileLen)

RECURSIVE lstrip(_)
lstrip(s) == IF s # <<>> /\ Head(s) = " " THEN lstrip(Tail(s)) ELSE s

RECURSIVE rstrip(_)
rstrip(s) ==
    IF s # <<>> /\ s[Len(s)] = " " THEN rstrip(SubSeq(s, 1, Len(s) - 1)) ELSE s

strip(s) == rstrip(lstrip(s))

KeepNonBlank(s) == s # <<>>

\* the test of line 114, negated: the stripped line is kept
KeepLine(s) == ~ (s = <<>> \/ Head(s) = "#")

RECURSIVE load_proxy_list(_)
load_proxy_list(f) ==
    IF f = <<>> THEN <<>>
    ELSE LET s == strip(Head(f))
         IN  IF KeepLine(s) THEN <<s>> \o load_proxy_list(Tail(f))
             ELSE load_proxy_list(Tail(f))

\* ----------------------------------------------------------- VPN profiles
\* A directory entry is <<stem, extension>>; entries sort by stem.  A listing
\* holds n profiles and one file that is no profile.
Listing(n) == { <<i, ".OVPN">> : i \in 1..n } \cup { <<0, ".conf">> }
Listings == { Listing(n) : n \in 0..MaxOvpns }
lower(ext) == IF ext = ".OVPN" THEN ".ovpn" ELSE ext

RECURSIVE sorted(_)
sorted(S) ==
    IF S = {} THEN <<>>
    ELSE LET m == CHOOSE x \in S : \A y \in S : x[1] <= y[1]
         IN  <<m>> \o sorted(S \ {m})

find_ovpn_files(listing) ==
    sorted({ e \in listing : lower(e[2]) = ".ovpn" })

\* ------------------------------------------------------------------ state
VARIABLES
    args,        \* the parsed command line (self.args)
    proxies,     \* run_loop's proxies
    ovpns,       \* run_loop's ovpns
    stop_event,  \* self.stop_event
    iteration,   \* run_loop's iteration
    pc,          \* position of the control thread
    idx,         \* position of the running for loop in its list
    rem,         \* seconds left of the running time.sleep
    elapsed,     \* poll periods slept by the running _wait_or_stop
    caller,      \* call site of the running _wait_or_stop
    ok,          \* run_once_tor's ok
    ctl,         \* outcome of tor_newnym_via_control in this Tor cycle
    ans,         \* the user's answer in tor_reload_service in this Tor cycle
    cmd_i,       \* position in cmd_try
    ran,         \* sudo restart commands executed in this Tor cycle
    p,           \* run_once_vpn's p: "None", "running" or "stopped"
    error,       \* the exception that ended the run, or "none"
    cycle_log,   \* messages logged since the current step of the pass began
    torCalls,    \* run_once_tor invocations of the run
    proxyCalls,  \* run_once_proxy invocations of the run
    vpnCalls,    \* run_once_vpn invocations of the run
    used,        \* proxy urls passed to run_once_proxy in this iteration
    waits,       \* _wait_or_stop calls of this iteration
    sinceStop,   \* poll periods slept by the running wait with the flag set
    stopInWait,  \* the flag was set while _wait_or_stop was running
    alive,       \* openvpn subprocesses started by the run that have not exited
    lastStep,    \* the later of: "adapter" invoked, _wait_or_stop ("wait") called
    afterStop    \* adapter invocations begun with the flag set

\* State of the functions that are also modelled statement by statement, each
\* under a specification of its own in which run_loop is not running.
VARIABLES
    upc,         \* position inside the function that is running
    ulog,        \* messages the running function has logged
    file,        \* load_proxy_list: the lines of the file at path
    line_no,     \* load_proxy_list: position of `for line in f`
    loaded,      \* load_proxy_list: its local list proxies
    password,    \* tor_newnym_via_control: password
    sock,        \* tor_newnym_via_control: s ("none", "open" or "closed")
    sent,        \* tor_newnym_via_control: commands written and flushed
    auth_resp,   \* tor_newnym_via_control: auth_resp (<<>> until it is read)
    resp,        \* tor_newnym_via_control: resp (<<>> until it is read)
    ret,         \* what the running function returned, or "raised"
    proc,        \* stop_process: the subprocess of p ("running" or "exited")
    exit_after,  \* stop_process: seconds the subprocess takes to exit on SIGTERM
    waited,      \* stop_process: seconds p.wait has waited
    calls        \* stop_process: methods of p called, in order

loadVars == << file, line_no, loaded >>
ctlVars == << password, sock, sent, auth_resp, resp >>
stopVars == << proc, exit_after, waited, calls >>
unitVars == << upc, ulog, ret, loadVars, ctlVars, stopVars >>

LoadIdle == file = <<>> /\ line_no = 0 /\ loaded = <<>>

CtlIdle ==
    /\ password = "None"
    /\ sock = "none"
    /\ sent = <<>>
    /\ auth_resp = <<>>
    /\ resp = <<>>

StopIdle == proc = "none" /\ exit_after = 0 /\ waited = 0 /\ calls = <<>>

\* none of these functions is running on its own
UnitsIdle ==
    /\ upc = "idle"
    /\ ulog = {}
    /\ ret = "none"
    /\ LoadIdle
    /\ CtlIdle
    /\ StopIdle

vars == << args, proxies, ovpns, stop_event, iteration, pc, idx, rem, elapsed,
           caller, ok, ctl, ans, cmd_i, ran, p, error, cycle_log, torCalls,
           proxyCalls, vpnCalls, used, waits, sinceStop, stopInWait, alive,
           lastStep, afterStop, unitVars >>

cfgVars == << args, proxies, ovpns >>
torVars == << ok, ctl, ans, cmd_i, ran >>
timeVars == << rem, elapsed, caller, sinceStop >>
callVars == << torCalls, proxyCalls, vpnCalls, used, waits >>
monVars == << alive, lastStep, afterStop >>

Max(a, b) == IF a >= b THEN a ELSE b

\* log(msg) followed by a move to target.  The append to the log file can
\* fail (fails): log then raises OSError, and nothing between the call and
\* main() catches it.
Log(fails, msgs, target) ==
    IF ~ fails
    THEN /\ cycle_log' = cycle_log \cup msgs
         /\ pc' = target
         /\ error' = error
    ELSE /\ cycle_log' = cycle_log
         /\ pc' = "fatal"
         /\ error' = "OSError"

\* the same, for the first log call of a step of the pass
LogFresh(fails, msgs, target) ==
    IF ~ fails
    THEN /\ cycle_log' = msgs
         /\ pc' = target
         /\ error' = error
    ELSE /\ cycle_log' = cycle_log
         /\ pc' = "fatal"
         /\ error' = "OSError"

\* a step that makes no log call
Goto(target) ==
    /\ pc' = target
    /\ error' = error

\* the state of a run as run_loop begins
LoopStart ==
    /\ proxies = <<>>
    /\ ovpns = <<>>
    /\ stop_event = FALSE
    /\ iteration = 0
    /\ pc = "start"
    /\ idx = 0
    /\ rem = 0
    /\ elapsed = 0
    /\ caller = "none"
    /\ ok = FALSE
    /\ ctl = "none"
    /\ ans = "none"
    /\ cmd_i = 0
    /\ ran = 0
    /\ p = "None"
    /\ error = "none"
    /\ cycle_log = {}
    /\ torCalls = 0
    /\ proxyCalls = 0
    /\ vpnCalls = 0
    /\ used = <<>>
    /\ waits = 0
    /\ sinceStop = 0
    /\ stopInWait = FALSE
    /\ alive = 0
    /\ lastStep = "none"
    /\ afterStop = 0

Init ==
    /\ args \in [ mode : Modes,
                  interval : {0, MaxInterval},
                  wait_after_change : {0, MaxSettle},
                  count : 0..MaxCount,
                  run_once : BOOLEAN,
                  dry_run : BOOLEAN ]
    /\ LoopStart
    /\ UnitsIdle

\* ------------------------------------------------------- run_loop: set-up
Prepare ==
    \E fails \in BOOLEAN, proxy_list \in BOOLEAN, ovpn_dir \in BOOLEAN :
        /\ pc = "start"
        /\ \E f \in ProxyFiles :
              proxies' = IF proxy_list THEN load_proxy_list(f) ELSE <<>>
        /\ \E listing \in Listings :
              ovpns' = IF ovpn_dir THEN find_ovpn_files(listing) ELSE <<>>
        /\ IF proxy_list \/ ovpn_dir
           THEN Log(fails, {"Loaded proxies / found .ovpn files"}, "loop_head")
           ELSE Goto("loop_head") /\ cycle_log' = cycle_log
        /\ UNCHANGED << unitVars, monVars,
                        args, stop_event, iteration, idx, torVars, p, timeVars,
                        callVars, stopInWait >>

\* ------------------------------------------------- run_loop: the decisions
LoopCond == ~ stop_event

TorSelected == args.mode \in {"tor", "all"}

ProxySelected == args.mode \in {"proxy", "all"} /\ proxies # <<>>

VpnSelectedAnyMode == ovpns # <<>>

VpnSelected == args.mode \in {"vpn", "all"} /\ ovpns # <<>>

ForBreakNever == FALSE

ForBreak == stop_event

NoProxies == args.mode = "proxy" /\ proxies = <<>>

NoOvpnsNever == FALSE

NoOvpns == args.mode = "vpn" /\ ovpns = <<>>

RunOnceUnlessCounted == args.run_once /\ args.count = 0

RunOnceSet == args.run_once

CountReachedLate == args.count # 0 /\ iteration > args.count

CountReachedZero == iteration >= args.count

CountReached == args.count # 0 /\ iteration >= args.count

WaitBreak == stop_event

TorNeverReturnsEarly(okv) == FALSE

TorReturnsEarly(okv) == ~ okv

\* ------------------------------------------------------------ time.sleep
SleepPcs == {"tor_settle", "proxy_settle", "vpn_settle", "vpn_cooldown"}

WaitPcs == {"wait", "wait_sleep"}

\* time.sleep(n) begins
StartSleep(n) ==
    /\ rem' = n
    /\ sinceStop' = 0
    /\ UNCHANGED << elapsed, caller >>

\* the rest of a running time.sleep passes; the call does not look at the flag
TimeSleep ==
    /\ pc \in SleepPcs
    /\ rem > 0
    /\ rem' = 0
    /\ sinceStop' = IF stop_event THEN sinceStop + PollsPerSecond * rem
                                  ELSE sinceStop
    /\ UNCHANGED << unitVars, monVars,
                    cfgVars, stop_event, iteration, pc, error, idx, elapsed,
                    caller, torVars, p, cycle_log, callVars, stopInWait >>

\* ---------------------------------------------------------- _wait_or_stop
\* the call of _wait_or_stop from call site c, after a log call
EnterWait(fails, c) ==
    /\ caller' = c
    /\ elapsed' = 0
    /\ sinceStop' = 0
    /\ rem' = rem
    /\ waits' = IF ~ fails THEN waits + 1 ELSE waits
    /\ lastStep' = IF ~ fails THEN "wait" ELSE lastStep

WaitTotal == PollsPerSecond * args.interval

\* where _wait_or_stop returns to
WaitReturn ==
    CASE caller = "proxy" -> "proxy_for"
      [] caller = "vpn" -> "vpn_for"
      [] caller = "noproxy" -> "novpn_chk"
      [] OTHER -> "once_chk"

\* the loop test and the flag test of _wait_or_stop
WaitCheck ==
    /\ pc = "wait"
    /\ IF elapsed >= WaitTotal \/ WaitBreak
       THEN /\ Goto(WaitReturn)
            /\ idx' = IF caller \in {"proxy", "vpn"} THEN idx + 1 ELSE idx
            /\ caller' = "none"
            /\ elapsed' = 0
            /\ sinceStop' = 0
            /\ cycle_log' = {}
       ELSE /\ Goto("wait_sleep")
            /\ UNCHANGED << idx, caller, elapsed, sinceStop, cycle_log >>
    /\ UNCHANGED << unitVars, monVars,
                    cfgVars, stop_event, iteration, rem, torVars, p, callVars,
                    stopInWait >>

\* time.sleep(0.5) of _wait_or_stop
WaitSleep ==
    /\ pc = "wait_sleep"
    /\ elapsed' = elapsed + 1
    /\ sinceStop' = IF stop_event THEN sinceStop + 1 ELSE sinceStop
    /\ Goto("wait")
    /\ UNCHANGED << unitVars, monVars,
                    cfgVars, stop_event, iteration, idx, rem, caller, torVars,
                    p, cycle_log, callVars, stopInWait >>

\* an adapter (run_once_tor, run_once_proxy, run_once_vpn) is invoked after
\* the log call before it
BeginAdapter(fails) ==
    /\ lastStep' = IF ~ fails THEN "adapter" ELSE lastStep
    /\ afterStop' = IF ~ fails /\ stop_event THEN afterStop + 1 ELSE afterStop

\* ------------------------------------------------ run_loop: the loop head
LoopHead ==
    \E fails \in BOOLEAN :
        /\ pc = "loop_head"
        /\ IF LoopCond
           THEN /\ iteration < MaxIter
                /\ iteration' = iteration + 1
                /\ used' = <<>>
                /\ waits' = 0
                /\ LogFresh(fails, {"--- Iteration ---"}, "tor_sel")
           ELSE /\ Goto("exit")
                /\ UNCHANGED << iteration, used, waits, cycle_log >>
        /\ UNCHANGED << unitVars, monVars,
                        cfgVars, stop_event, idx, timeVars, torVars, p,
                        torCalls, proxyCalls, vpnCalls, stopInWait >>

\* ------------------------------------------------------------ run_once_tor
TorSel ==
    \E fails \in BOOLEAN :
        /\ pc = "tor_sel"
        /\ IF TorSelected
           THEN /\ LogFresh(fails, {"Running TOR change..."}, "tor_before")
                /\ torCalls' = IF ~ fails THEN torCalls + 1 ELSE torCalls
                /\ BeginAdapter(fails)
           ELSE /\ Goto("proxy_sel")
                /\ UNCHANGED << cycle_log, torCalls, lastStep, afterStop >>
        /\ UNCHANGED << unitVars, alive,
                        cfgVars, stop_event, iteration, idx, timeVars, torVars,
                        p, proxyCalls, vpnCalls, used, waits, stopInWait >>

\* check_ip() and the log of its result
TorBefore ==
    \E fails \in BOOLEAN :
        /\ pc = "tor_before"
        /\ Log(fails, {"IP before (direct)"}, "tor_control")
        /\ UNCHANGED << unitVars, monVars,
                        cfgVars, stop_event, iteration, idx, timeVars, torVars,
                        p, callVars, stopInWait >>

\* what run_once_tor does with the ok that tor_change_identity returned
AfterChange(fails, okv, msgs) ==
    IF TorReturnsEarly(okv)
    THEN /\ Log(fails, msgs \cup {"TOR identity change did not complete."},
                "proxy_sel")
         /\ UNCHANGED timeVars
    ELSE /\ Log(fails, msgs, "tor_settle")
         /\ StartSleep(args.wait_after_change)

CtlOutcomes == {"ok", "refused", "auth_rejected", "signal_rejected", "io_error"}

CtlMsg(o) ==
    CASE o = "auth_rejected" -> "Tor control auth failed"
      [] o = "signal_rejected" -> "Tor control SIGNAL response"
      [] OTHER -> "Tor control error"

\* tor_newnym_via_control, and tor_change_identity up to the prompt
TorControl ==
    \E fails \in BOOLEAN, o \in CtlOutcomes :
        /\ pc = "tor_control"
        /\ ctl' = o
        /\ IF o = "ok"
           THEN /\ ok' = TRUE
                /\ AfterChange(fails, TRUE,
                               {"Requested NEWNYM via Tor control port."})
           ELSE /\ ok' = FALSE
                /\ Log(fails,
                       {CtlMsg(o),
                        "Tor control port NEWNYM failed; falling back to service restart.",
                        "Attempting to restart 'tor' service (requires sudo)."},
                       "tor_confirm")
                /\ UNCHANGED timeVars
        /\ UNCHANGED << unitVars, monVars,
                        cfgVars, stop_event, iteration, idx, ans, cmd_i, ran, p,
                        callVars, stopInWait >>

\* what the user types at the prompt; "EOF" is a closed standard input
Answers == {"y", "Y", "n", "EOF"}

\* .strip().lower() of line 81
normalise(a) == IF a = "Y" THEN "y" ELSE a

ConfirmedAlways(a) == TRUE

\* the test of line 82, negated
Confirmed(a) == a = "y"

\* input() of tor_reload_service; at end of input it raises EOFError, which
\* nothing between the call and main() catches
TorConfirm ==
    \E fails \in BOOLEAN, typed \in Answers :
        /\ pc = "tor_confirm"
        /\ IF typed = "EOF"
           THEN /\ ans' = ans
                /\ pc' = "fatal"
                /\ error' = "EOFError"
                /\ UNCHANGED << ok, cmd_i, cycle_log, timeVars >>
           ELSE /\ ans' = normalise(typed)
                /\ IF Confirmed(ans')
                   THEN /\ Goto("tor_restart")
                        /\ cmd_i' = 1
                        /\ UNCHANGED << ok, cycle_log, timeVars >>
                   ELSE /\ ok' = FALSE
                        /\ cmd_i' = cmd_i
                        /\ AfterChange(fails, FALSE,
                                       {"User declined to restart tor service."})
        /\ UNCHANGED << unitVars, monVars, cfgVars, stop_event, iteration, idx,
                        ctl, ran, p, callVars, stopInWait >>

\* subprocess.check_call(["sudo"] + cmd_try[cmd_i])
TorRestart ==
    \E fails \in BOOLEAN,
       r \in {"success", "CalledProcessError", "FileNotFoundError"} :
        /\ pc = "tor_restart"
        /\ ran' = IF r = "FileNotFoundError" THEN ran ELSE ran + 1
        /\ IF r = "success"
           THEN /\ ok' = TRUE
                /\ cmd_i' = cmd_i
                /\ AfterChange(fails, TRUE, {"Ran: sudo"})
           ELSE IF cmd_i < Len(cmd_try)
           THEN /\ cmd_i' = cmd_i + 1
                /\ UNCHANGED << ok, pc, error, cycle_log, timeVars >>
           ELSE /\ ok' = FALSE
                /\ cmd_i' = cmd_i
                /\ AfterChange(fails, FALSE,
                               {"Could not restart tor service automatically."})
        /\ UNCHANGED << unitVars, monVars,
                        cfgVars, stop_event, iteration, idx, ctl, ans, p,
                        callVars, stopInWait >>

\* check_ip(proxies=tor_proxies) once the settle sleep is over
TorAfter ==
    \E fails \in BOOLEAN :
        /\ pc = "tor_settle"
        /\ rem = 0
        /\ Log(fails, {"IP after (via TOR)"}, "proxy_sel")
        /\ sinceStop' = 0
        /\ UNCHANGED << unitVars, monVars,
                        cfgVars, stop_event, iteration, idx, rem, elapsed,
                        caller, torVars, p, callVars, stopInWait >>

\* ---------------------------------------------------------- run_once_proxy
\* run_once_tor has returned (its locals are gone); the test of line 234
ProxySel ==
    /\ pc = "proxy_sel"
    /\ IF ProxySelected
       THEN /\ Goto("proxy_for")
            /\ idx' = 1
       ELSE /\ Goto("vpn_sel")
            /\ idx' = idx
    /\ ok' = FALSE
    /\ ctl' = "none"
    /\ ans' = "none"
    /\ cmd_i' = 0
    /\ ran' = 0
    /\ cycle_log' = {}
    /\ UNCHANGED << unitVars, monVars,
                    cfgVars, stop_event, iteration, timeVars, p, callVars,
                    stopInWait >>

\* for purl in proxies: the flag test, the log and the call of run_once_proxy
ProxyFor ==
    \E fails \in BOOLEAN :
        /\ pc = "proxy_for"
        /\ IF idx > Len(proxies) \/ ForBreak
           THEN /\ Goto("vpn_sel")
                /\ idx' = 0
                /\ UNCHANGED << cycle_log, proxyCalls, used, lastStep,
                                afterStop >>
           ELSE /\ LogFresh(fails, {"Using proxy"}, "proxy_before")
                /\ idx' = idx
                /\ proxyCalls' = IF ~ fails THEN proxyCalls + 1 ELSE proxyCalls
                /\ used' = IF ~ fails THEN Append(used, proxies[idx]) ELSE used
                /\ BeginAdapter(fails)
        /\ UNCHANGED << unitVars, alive,
                        cfgVars, stop_event, iteration, timeVars, torVars, p,
                        torCalls, vpnCalls, waits, stopInWait >>

\* check_ip(), its log, and the start of the settle sleep
ProxyBefore ==
    \E fails \in BOOLEAN :
        /\ pc = "proxy_before"
        /\ Log(fails, {"IP before (direct)"}, "proxy_settle")
        /\ StartSleep(args.wait_after_change)
        /\ UNCHANGED << unitVars, monVars,
                        cfgVars, stop_event, iteration, idx, torVars, p,
                        callVars, stopInWait >>

\* check_ip(proxies=proxies), its log, and the call of _wait_or_stop
ProxyAfter ==
    \E fails \in BOOLEAN :
        /\ pc = "proxy_settle"
        /\ rem = 0
        /\ Log(fails, {"IP via proxy"}, "wait")
        /\ EnterWait(fails, "proxy")
        /\ UNCHANGED << unitVars, alive, afterStop,
                        cfgVars, stop_event, iteration, idx, torVars, p,
                        torCalls, proxyCalls, vpnCalls, used, stopInWait >>

\* ------------------------------------------------------------ run_once_vpn
VpnSel ==
    /\ pc = "vpn_sel"
    /\ IF VpnSelected
       THEN /\ Goto("vpn_for")
            /\ idx' = 1
       ELSE /\ Goto("noproxy_chk")
            /\ idx' = idx
    /\ UNCHANGED << unitVars, monVars,
                    cfgVars, stop_event, iteration, timeVars, torVars, p,
                    cycle_log, callVars, stopInWait >>

\* for cfg in ovpns: the flag test, the log and the call of run_once_vpn
VpnFor ==
    \E fails \in BOOLEAN :
        /\ pc = "vpn_for"
        /\ IF idx > Len(ovpns) \/ ForBreak
           THEN /\ Goto("noproxy_chk")
                /\ idx' = 0
                /\ UNCHANGED << cycle_log, vpnCalls, lastStep, afterStop >>
           ELSE /\ LogFresh(fails, {"Using VPN config"}, "vpn_before")
                /\ idx' = idx
                /\ vpnCalls' = IF ~ fails THEN vpnCalls + 1 ELSE vpnCalls
                /\ BeginAdapter(fails)
        /\ UNCHANGED << unitVars, alive,
                        cfgVars, stop_event, iteration, p, timeVars, torVars,
                        torCalls, proxyCalls, used, waits, stopInWait >>

\* check_ip() and the log of its result
VpnBefore ==
    \E fails \in BOOLEAN :
        /\ pc = "vpn_before"
        /\ Log(fails, {"IP before (direct)"}, "vpn_start")
        /\ UNCHANGED << unitVars, monVars,
                        cfgVars, stop_event, iteration, idx, timeVars, torVars,
                        p, callVars, stopInWait >>

StartOutcomes == {"running", "exited", "FileNotFoundError", "error"}

\* start_openvpn, and run_once_vpn up to its settle sleep.  A log call that
\* raises does so before Popen (line 130) or with the subprocess running
\* (line 204).  The handler of line 143 also catches what is raised after
\* Popen has returned (lines 133-138): start_openvpn then returns None with
\* the subprocess started.
VpnStart ==
    \E fails \in BOOLEAN, o \in StartOutcomes :
        /\ pc = "vpn_start"
        /\ IF o = "running"
           THEN /\ p' \in IF fails THEN {p, "running"} ELSE {"running"}
                /\ alive' = IF p' = "running" THEN alive + 1 ELSE alive
                /\ Log(fails,
                       {"Starting OpenVPN config", "OpenVPN process started.",
                        "Sleeping for VPN to establish..."},
                       "vpn_settle")
                /\ StartSleep(Max(MinVpnWait, args.wait_after_change))
           ELSE /\ p' = p
                /\ alive' \in IF o = "error" THEN {alive, alive + 1}
                                             ELSE {alive}
                /\ Log(fails,
                       {"Starting OpenVPN config", o,
                        "OpenVPN failed to start for this config."},
                       "vpn_failed")
                /\ UNCHANGED timeVars
        /\ UNCHANGED << unitVars, lastStep, afterStop,
                        cfgVars, stop_event, iteration, idx, torVars, callVars,
                        stopInWait >>

\* check_ip() and its log once the settle sleep is over
VpnAfter ==
    \E fails \in BOOLEAN :
        /\ pc = "vpn_settle"
        /\ rem = 0
        /\ Log(fails, {"IP after VPN"}, "vpn_stop")
        /\ sinceStop' = 0
        /\ UNCHANGED << unitVars, monVars,
                        cfgVars, stop_event, iteration, idx, rem, elapsed,
                        caller, torVars, p, callVars, stopInWait >>

StopOutcomes == {"terminated", "killed", "kill_failed"}

\* stop_process(p), then time.sleep(2) begins.  An exception of p.kill() is
\* swallowed (lines 155-156): "VPN process killed." is logged with the
\* subprocess running.
StopProcess ==
    \E fails \in BOOLEAN, o \in StopOutcomes :
        /\ pc = "vpn_stop"
        /\ Log(fails,
               {IF o = "terminated" THEN "VPN process terminated."
                                    ELSE "VPN process killed."},
               "vpn_cooldown")
        /\ p' = "stopped"
        /\ alive' = IF o = "kill_failed" THEN alive ELSE alive - 1
        /\ StartSleep(VpnCooldown)
        /\ UNCHANGED << unitVars, lastStep, afterStop,
                        cfgVars, stop_event, iteration, idx, torVars, callVars,
                        stopInWait >>

\* run_once_vpn returns and run_loop calls _wait_or_stop
VpnReturn ==
    /\ \/ pc = "vpn_cooldown" /\ rem = 0
       \/ pc = "vpn_failed"
    /\ Goto("wait")
    /\ caller' = "vpn"
    /\ elapsed' = 0
    /\ sinceStop' = 0
    /\ waits' = waits + 1
    /\ lastStep' = "wait"
    /\ p' = "None"
    /\ cycle_log' = {}
    /\ UNCHANGED << unitVars, alive, afterStop,
                    cfgVars, stop_event, iteration, idx, rem, torVars,
                    torCalls, proxyCalls, vpnCalls, used, stopInWait >>

\* ---------------------------------------------- run_loop: end of iteration
NoProxyChk ==
    \E fails \in BOOLEAN :
        /\ pc = "noproxy_chk"
        /\ IF NoProxies
           THEN /\ LogFresh(fails, {"No proxies provided; sleeping."}, "wait")
                /\ EnterWait(fails, "noproxy")
           ELSE /\ Goto("novpn_chk")
                /\ UNCHANGED << cycle_log, timeVars, waits, lastStep >>
        /\ UNCHANGED << unitVars, alive, afterStop,
                        cfgVars, stop_event, iteration, idx, torVars, p,
                        torCalls, proxyCalls, vpnCalls, used, stopInWait >>

NoVpnChk ==
    \E fails \in BOOLEAN :
        /\ pc = "novpn_chk"
        /\ IF NoOvpns
           THEN /\ LogFresh(fails, {"No .ovpn files provided; sleeping."},
                            "wait")
                /\ EnterWait(fails, "novpn")
           ELSE /\ Goto("once_chk")
                /\ UNCHANGED << cycle_log, timeVars, waits, lastStep >>
        /\ UNCHANGED << unitVars, alive, afterStop,
                        cfgVars, stop_event, iteration, idx, torVars, p,
                        torCalls, proxyCalls, vpnCalls, used, stopInWait >>

OnceChk ==
    \E fails \in BOOLEAN :
        /\ pc = "once_chk"
        /\ IF RunOnceSet
           THEN Log(fails, {"run_once specified; exiting loop."}, "exit")
           ELSE Goto("count_chk") /\ cycle_log' = cycle_log
        /\ UNCHANGED << unitVars, monVars,
                        cfgVars, stop_event, iteration, idx, timeVars, torVars,
                        p, callVars, stopInWait >>

CountChk ==
    \E fails \in BOOLEAN :
        /\ pc = "count_chk"
        /\ IF CountReached
           THEN Log(fails, {"Reached count, exiting."}, "exit")
           ELSE Goto("loop_head") /\ cycle_log' = cycle_log
        /\ UNCHANGED << unitVars, monVars,
                        cfgVars, stop_event, iteration, idx, timeVars, torVars,
                        p, callVars, stopInWait >>

Exit ==
    \E fails \in BOOLEAN :
        /\ pc = "exit"
        /\ Log(fails, {"AutoChanger finished."}, "finished")
        /\ UNCHANGED << unitVars, monVars,
                        cfgVars, stop_event, iteration, idx, timeVars, torVars,
                        p, callVars, stopInWait >>

\* ------------------------------------------------------------ environment
Running == pc \notin {"finished", "fatal"}

\* SIGINT or SIGTERM: _signal_handler logs, then sets the flag.  A log call
\* that raises leaves the flag as it was and unwinds the control thread.  A
\* signal that arrives during a time.sleep finds some of the sleep left.
Signal ==
    \E fails \in BOOLEAN :
        /\ Running
        /\ IF ~ fails
           THEN /\ stop_event' = TRUE
                /\ stopInWait' = (stopInWait \/ (pc \in WaitPcs /\ ~ stop_event))
                /\ Goto(pc)
                /\ IF pc \in SleepPcs /\ ~ stop_event
                   THEN \E left \in 0..rem : rem' = left
                   ELSE rem' = rem
           ELSE /\ pc' = "fatal"
                /\ error' = "OSError"
                /\ UNCHANGED << stop_event, stopInWait, rem >>
        /\ UNCHANGED << unitVars, monVars,
                        cfgVars, iteration, idx, elapsed, caller, sinceStop,
                        torVars, p, cycle_log, callVars >>

\* ---------------------------------------------------------- specification
Control ==
    \/ Prepare
    \/ LoopHead
    \/ TorSel
    \/ TorBefore
    \/ TorControl
    \/ TorConfirm
    \/ TorRestart
    \/ TorAfter
    \/ ProxySel
    \/ ProxyFor
    \/ ProxyBefore
    \/ ProxyAfter
    \/ VpnSel
    \/ VpnFor
    \/ VpnBefore
    \/ VpnStart
    \/ VpnAfter
    \/ StopProcess
    \/ VpnReturn
    \/ NoProxyChk
    \/ NoVpnChk
    \/ OnceChk
    \/ CountChk
    \/ Exit
    \/ TimeSleep
    \/ WaitCheck
    \/ WaitSleep

Next ==
    \/ Control
    \/ Signal

Spec == Init /\ [][Next]_vars

\* The control thread keeps running: every external call it makes returns.
SpecLive == Spec /\ WF_vars(Control)

\* ======================================================================
\* Functions modelled statement by statement.  run_loop is not running in
\* these specifications: its variables keep the values of LoopStart.
loopVars == << cfgVars, stop_event, iteration, pc, idx, timeVars, torVars, p,
               error, cycle_log, callVars, stopInWait, monVars >>

\* the defaults of parse_args
DefaultArgs ==
    [ mode |-> "tor", interval |-> 60, wait_after_change |-> 5, count |-> 0,
      run_once |-> FALSE, dry_run |-> FALSE ]

\* ------------------------------------------------- tor_newnym_via_control
\* A response line is a sequence of characters; <<>> is what readline
\* returns at the end of the stream.
ResponseLines ==
    { <<>>,
      <<"2", "5", "0">>,
      <<"2", "5", "0", " ", "O", "K">>,
      <<"2", "5">>,
      <<" ", "2", "5", "0">>,
      <<"5", "1", "5", " ", "B", "a", "d">> }

\* str.startswith
startswith(line, prefix) ==
    Len(line) >= Len(prefix) /\ SubSeq(line, 1, Len(prefix)) = prefix

OkPrefix == <<"2", "5", "0">>

\* control_password: absent, empty or set
Passwords == {"None", "", "pw"}

\* the command of lines 55-58: `if password` is false for None and for ""
AuthCommand(pw) ==
    IF pw \notin {"None", ""} THEN <<"AUTHENTICATE", pw>> ELSE <<"AUTHENTICATE">>

SignalCommand == <<"SIGNAL", "NEWNYM">>

AuthAcceptedAny(line) == TRUE

\* the test of line 61, negated
AuthAccepted(line) == startswith(line, OkPrefix)

\* the test of line 69
SignalAccepted(line) == startswith(line, OkPrefix)

\* socket.create_connection
CtlConnect ==
    \E r \in {"connected", "refused"} :
        /\ upc = "ctl_connect"
        /\ IF r = "connected"
           THEN sock' = "open" /\ upc' = "ctl_auth_send"
           ELSE sock' = sock /\ upc' = "ctl_except"
        /\ UNCHANGED << loopVars, loadVars, stopVars, ulog, ret, password, sent,
                        auth_resp, resp >>

\* makefile, write of the AUTHENTICATE command, flush
CtlAuthSend ==
    \E r \in {"sent", "error"} :
        /\ upc = "ctl_auth_send"
        /\ IF r = "sent"
           THEN /\ sent' = Append(sent, AuthCommand(password))
                /\ upc' = "ctl_auth_read"
           ELSE /\ sent' = sent
                /\ upc' = "ctl_except"
        /\ UNCHANGED << loopVars, loadVars, stopVars, ulog, ret, password, sock,
                        auth_resp, resp >>

\* auth_resp = s_file.readline() and the test of line 61
CtlAuthRead ==
    \E r \in {"line", "error"}, line \in ResponseLines :
        /\ upc = "ctl_auth_read"
        /\ IF r = "line"
           THEN /\ auth_resp' = line
                /\ upc' = IF AuthAccepted(line) THEN "ctl_signal_send"
                                                ELSE "ctl_auth_fail"
           ELSE /\ auth_resp' = auth_resp
                /\ upc' = "ctl_except"
        /\ UNCHANGED << loopVars, loadVars, stopVars, ulog, ret, password, sock,
                        sent, resp >>

\* lines 62-64; a log call that raises is caught at line 74
CtlAuthFail ==
    \E fails \in BOOLEAN :
        /\ upc = "ctl_auth_fail"
        /\ IF ~ fails
           THEN /\ ulog' = ulog \cup {"Tor control auth failed"}
                /\ sock' = "closed"
                /\ ret' = "False"
                /\ upc' = "ctl_done"
           ELSE /\ upc' = "ctl_except"
                /\ UNCHANGED << ulog, sock, ret >>
        /\ UNCHANGED << loopVars, loadVars, stopVars, password, sent, auth_resp,
                        resp >>

\* write of SIGNAL NEWNYM, flush
CtlSignalSend ==
    \E r \in {"sent", "error"} :
        /\ upc = "ctl_signal_send"
        /\ IF r = "sent"
           THEN /\ sent' = Append(sent, SignalCommand)
                /\ upc' = "ctl_signal_read"
           ELSE /\ sent' = sent
                /\ upc' = "ctl_except"
        /\ UNCHANGED << loopVars, loadVars, stopVars, ulog, ret, password, sock,
                        auth_resp, resp >>

\* resp = s_file.readline(), then s.close()
CtlSignalRead ==
    \E r \in {"line", "error"}, line \in ResponseLines :
        /\ upc = "ctl_signal_read"
        /\ IF r = "line"
           THEN /\ resp' = line
                /\ sock' = "closed"
                /\ upc' = "ctl_result"
           ELSE /\ upc' = "ctl_except"
                /\ UNCHANGED << resp, sock >>
        /\ UNCHANGED << loopVars, loadVars, stopVars, ulog, ret, password, sent,
                        auth_resp >>

\* lines 69-73; a log call that raises is caught at line 74
CtlResult ==
    \E fails \in BOOLEAN :
        /\ upc = "ctl_result"
        /\ IF SignalAccepted(resp)
           THEN /\ ret' = "True"
                /\ upc' = "ctl_done"
                /\ ulog' = ulog
           ELSE IF ~ fails
           THEN /\ ulog' = ulog \cup {"Tor control SIGNAL response"}
                /\ ret' = "False"
                /\ upc' = "ctl_done"
           ELSE /\ upc' = "ctl_except"
                /\ UNCHANGED << ulog, ret >>
        /\ UNCHANGED << loopVars, loadVars, stopVars, ctlVars >>

\* except Exception (lines 74-76); a log call that raises here leaves the
\* function
CtlExcept ==
    \E fails \in BOOLEAN :
        /\ upc = "ctl_except"
        /\ IF ~ fails
           THEN /\ ulog' = ulog \cup {"Tor control error"}
                /\ ret' = "False"
           ELSE /\ ulog' = ulog
                /\ ret' = "raised"
        /\ upc' = "ctl_done"
        /\ UNCHANGED << loopVars, loadVars, stopVars, ctlVars >>

InitCtl ==
    /\ args = DefaultArgs
    /\ LoopStart
    /\ upc = "ctl_connect"
    /\ ulog = {}
    /\ ret = "none"
    /\ password \in Passwords
    /\ sock = "none"
    /\ sent = <<>>
    /\ auth_resp = <<>>
    /\ resp = <<>>
    /\ LoadIdle
    /\ StopIdle

NextCtl ==
    \/ CtlConnect
    \/ CtlAuthSend
    \/ CtlAuthRead
    \/ CtlAuthFail
    \/ CtlSignalSend
    \/ CtlSignalRead
    \/ CtlResult
    \/ CtlExcept

SpecCtl == InitCtl /\ [][NextCtl]_vars


\* ---------------------------------------------------------- load_proxy_list
\* one turn of `for line in f` (lines 112-116)
LoadLine ==
    /\ upc = "load_loop"
    /\ line_no <= Len(file)
    /\ LET s == strip(file[line_no])
       IN  loaded' = IF KeepLine(s) THEN Append(loaded, s) ELSE loaded
    /\ line_no' = line_no + 1
    /\ UNCHANGED << loopVars, ctlVars, stopVars, upc, ulog, ret, file >>

\* the file is exhausted: return proxies
LoadReturn ==
    /\ upc = "load_loop"
    /\ line_no > Len(file)
    /\ upc' = "load_done"
    /\ UNCHANGED << loopVars, ctlVars, stopVars, ulog, ret, loadVars >>

InitLoad ==
    /\ args = DefaultArgs
    /\ LoopStart
    /\ upc = "load_loop"
    /\ ulog = {}
    /\ ret = "none"
    /\ file \in ProxyFiles
    /\ line_no = 1
    /\ loaded = <<>>
    /\ CtlIdle
    /\ StopIdle

NextLoad ==
    \/ LoadLine
    \/ LoadReturn

SpecLoad == InitLoad /\ [][NextLoad]_vars

\* ------------------------------------------------------------- stop_process
\* p.terminate(); on a subprocess that has exited it does nothing
StopTerminate ==
    \E r \in {"ok", "raised"} :
        /\ upc = "stop_terminate"
        /\ r = "raised" => proc = "running"
        /\ calls' = Append(calls, <<"terminate", r>>)
        /\ IF r = "ok"
           THEN /\ upc' = "stop_wait"
                /\ proc' = IF exit_after = 0 THEN "exited" ELSE proc
           ELSE /\ upc' = "stop_kill"
                /\ proc' = proc
        /\ UNCHANGED << loopVars, loadVars, ctlVars, ulog, ret, exit_after,
                        waited >>

\* one second of p.wait(timeout=10) with the subprocess running
StopWaitTick ==
    /\ upc = "stop_wait"
    /\ proc = "running"
    /\ waited < TermTimeout
    /\ waited' = waited + 1
    /\ proc' = IF waited' >= exit_after THEN "exited" ELSE proc
    /\ UNCHANGED << loopVars, loadVars, ctlVars, upc, ulog, ret, exit_after,
                    calls >>

\* p.wait returns: the subprocess has exited
StopWaitReturn ==
    /\ upc = "stop_wait"
    /\ proc = "exited"
    /\ calls' = Append(calls, <<"wait", "returned">>)
    /\ upc' = "stop_log_term"
    /\ UNCHANGED << loopVars, loadVars, ctlVars, ulog, ret, proc, exit_after,
                    waited >>

\* p.wait raises TimeoutExpired
StopWaitTimeout ==
    /\ upc = "stop_wait"
    /\ proc = "running"
    /\ waited = TermTimeout
    /\ calls' = Append(calls, <<"wait", "TimeoutExpired">>)
    /\ upc' = "stop_kill"
    /\ UNCHANGED << loopVars, loadVars, ctlVars, ulog, ret, proc, exit_after,
                    waited >>

\* log("VPN process terminated.") inside the try: what it raises is caught
\* at line 152
StopLogTerminated ==
    \E fails \in BOOLEAN :
        /\ upc = "stop_log_term"
        /\ IF ~ fails
           THEN /\ ulog' = ulog \cup {"VPN process terminated."}
                /\ ret' = "None"
                /\ upc' = "stop_done"
           ELSE /\ upc' = "stop_kill"
                /\ UNCHANGED << ulog, ret >>
        /\ UNCHANGED << loopVars, loadVars, ctlVars, stopVars >>

\* except Exception: p.kill(), whose own exception is passed over
StopKill ==
    \E r \in {"ok", "raised"} :
        /\ upc = "stop_kill"
        /\ r = "raised" => proc = "running"
        /\ calls' = Append(calls, <<"kill", r>>)
        /\ proc' = IF r = "ok" THEN "exited" ELSE proc
        /\ upc' = "stop_log_kill"
        /\ UNCHANGED << loopVars, loadVars, ctlVars, ulog, ret, exit_after,
                        waited >>

\* log("VPN process killed.") outside the try
StopLogKilled ==
    \E fails \in BOOLEAN :
        /\ upc = "stop_log_kill"
        /\ IF ~ fails
           THEN /\ ulog' = ulog \cup {"VPN process killed."}
                /\ ret' = "None"
           ELSE /\ ulog' = ulog
                /\ ret' = "raised"
        /\ upc' = "stop_done"
        /\ UNCHANGED << loopVars, loadVars, ctlVars, stopVars >>

InitStop ==
    /\ args = DefaultArgs
    /\ LoopStart
    /\ upc = "stop_terminate"
    /\ ulog = {}
    /\ ret = "none"
    /\ proc \in {"running", "exited"}
    /\ exit_after \in IF proc = "running" THEN 0..(TermTimeout + 1) ELSE {0}
    /\ waited = 0
    /\ calls = <<>>
    /\ LoadIdle
    /\ CtlIdle

NextStop ==
    \/ StopTerminate
    \/ StopWaitTick
    \/ StopWaitReturn
    \/ StopWaitTimeout
    \/ StopLogTerminated
    \/ StopKill
    \/ StopLogKilled

SpecStop == InitStop /\ [][NextStop]_vars

\* ------------------------------------------------------------------ claims
IsPrefix(s, t) == Len(s) <= Len(t) /\ s = SubSeq(t, 1, Len(s))

Cancelled == stop_event

\* C1: with count = N > 0 and run_once = false the iteration counter never
\* exceeds N, and a run that ends without cancellation ends with the counter
\* at exactly N.
C1_ExactCount ==
    (args.count > 0 /\ ~ args.run_once) =>
        /\ iteration <= args.count
        /\ (pc \in {"exit", "finished"} /\ ~ Cancelled) => iteration = args.count

C1_Witness ==
    /\ pc = "finished"
    /\ ~ Cancelled
    /\ ~ args.run_once
    /\ args.count = 2
    /\ iteration = 2
    /\ args.mode = "all"

\* C2: with run_once = true the loop never starts a second iteration, whatever
\* count is, and a run that ends without cancellation has made exactly one
\* pass: one Tor cycle if the mode selects Tor, one proxy cycle per endpoint if
\* it selects proxies, one VPN cycle per profile if it selects VPN.
C2_RunOncePass ==
    args.run_once =>
        /\ iteration <= 1
        /\ (pc = "finished" /\ ~ Cancelled) =>
              /\ iteration = 1
              /\ torCalls = IF args.mode \in {"tor", "all"} THEN 1 ELSE 0
              /\ proxyCalls = IF args.mode \in {"proxy", "all"}
                                 THEN Len(proxies) ELSE 0
              /\ vpnCalls = IF args.mode \in {"vpn", "all"}
                               THEN Len(ovpns) ELSE 0

C2_Witness ==
    /\ pc = "finished"
    /\ ~ Cancelled
    /\ args.run_once
    /\ args.count = 2
    /\ args.mode = "all"
    /\ proxyCalls = 2
    /\ vpnCalls = 1
    /\ torCalls = 1

AdapterCalls == torCalls + proxyCalls + vpnCalls

\* C3: a flag set while _wait_or_stop is running ends that wait after at most
\* one more poll period, no run_once_tor, run_once_proxy or run_once_vpn call
\* begins afterwards, and the run reaches its finished state (or ends on a
\* log call that raises).
C3_CancelInWait ==
    /\ [](pc \in WaitPcs => sinceStop <= 1)
    /\ [][stopInWait => AdapterCalls' = AdapterCalls]_vars
    /\ (stopInWait ~> pc \in {"finished", "fatal"})

C3_Witness ==
    /\ stopInWait
    /\ pc = "finished"
    /\ args.mode = "all"
    /\ Len(proxies) = 2
    /\ proxyCalls = 1
    /\ Len(ovpns) = 1
    /\ vpnCalls = 0

\* C4: with dry_run set no Tor control connection is opened, no service
\* restart command is run and no VPN subprocess is launched or stopped.
C4_DryRunNoExternalAction ==
    args.dry_run =>
        /\ ctl = "none"
        /\ ran = 0
        /\ p = "None"
        /\ pc \notin {"tor_restart", "vpn_stop"}

\* C5: in every wait of the orchestrator, the settle sleeps included, at most
\* one poll period is slept once the flag is set.
C5_EveryWaitPollsFlag ==
    pc \in (WaitPcs \cup SleepPcs) => sinceStop <= 1

\* C6: the iteration counter never decreases, and the loop is left only with
\* the flag set, or with run_once after its one iteration, or with count > 0
\* and the counter at count; so with count = 0 and run_once = false a run
\* that is not cancelled never leaves the loop.
C6_Termination ==
    /\ [][iteration' >= iteration]_vars
    /\ [](pc \in {"exit", "finished"} =>
            \/ Cancelled
            \/ (args.run_once /\ iteration = 1)
            \/ (args.count > 0 /\ iteration = args.count))

C6_Witness ==
    /\ pc = "finished"
    /\ Cancelled
    /\ args.count = 0
    /\ ~ args.run_once
    /\ iteration = 2

\* C7: the settle sleep and the after-IP probe of a Tor cycle happen only when
\* the identity change reported success; when the control port failed and the
\* user declined the restart, the cycle has ended with the failure logged.
C7_TorFailureEndsCycle ==
    /\ pc = "tor_settle" => ok
    /\ (ctl \notin {"none", "ok"} /\ ans = "n") =>
          /\ pc \in {"proxy_sel", "fatal"}
          /\ pc = "proxy_sel" =>
                "TOR identity change did not complete." \in cycle_log

C7_Witness ==
    /\ pc = "proxy_sel"
    /\ ctl = "auth_rejected"
    /\ ans = "n"
    /\ ~ ok

\* C8: in mode proxy with a non-empty list there is no Tor and no VPN
\* activity, the endpoints used in an iteration are a prefix of the list, an
\* iteration that ends without cancellation has used the whole list in order,
\* and an uncancelled run has made one proxy cycle per endpoint and iteration.
C8_ProxyPass ==
    (args.mode = "proxy" /\ proxies # <<>>) =>
        /\ torCalls = 0 /\ ctl = "none" /\ ran = 0
        /\ vpnCalls = 0 /\ p = "None"
        /\ IsPrefix(used, proxies)
        /\ (pc \in {"once_chk", "count_chk"} /\ ~ Cancelled) => used = proxies
        /\ (pc = "finished" /\ ~ Cancelled) =>
              proxyCalls = iteration * Len(proxies)

C8_Witness ==
    /\ args.mode = "proxy"
    /\ Len(proxies) = 2
    /\ proxies[1] # proxies[2]
    /\ ovpns # <<>>
    /\ args.run_once
    /\ args.interval = 0
    /\ pc = "finished"
    /\ ~ Cancelled
    /\ proxyCalls = 2

\* C9: a VPN subprocess that start_openvpn returned as running is held only
\* inside run_once_vpn, between the start and stop_process: on every way out
\* of run_once_vpn it has been stopped.
C9_VpnAlwaysTornDown ==
    p = "running" => pc \in {"vpn_settle", "vpn_stop"}

EmptyConfig ==
    \/ args.mode = "proxy" /\ proxies = <<>>
    \/ args.mode = "vpn" /\ ovpns = <<>>

MissingMsg ==
    IF args.mode = "proxy" THEN "No proxies provided; sleeping."
                           ELSE "No .ovpn files provided; sleeping."

\* C10: in mode proxy with no proxies and in mode vpn with no profiles no
\* adapter is invoked, the missing configuration is logged before the one
\* idle wait of the iteration, nothing but a failing log file ends the run
\* abnormally, and the run_once and count tests still end the run.
C10_EmptyConfigIdles ==
    EmptyConfig =>
        /\ AdapterCalls = 0
        /\ waits <= 1
        /\ pc \in WaitPcs => MissingMsg \in cycle_log
        /\ pc \in {"once_chk", "count_chk"} => waits = 1
        /\ pc = "fatal" => error = "OSError"
        /\ args.run_once => iteration <= 1
        /\ args.count > 0 => iteration <= args.count
        /\ (pc = "finished" /\ ~ Cancelled) =>
              \/ (args.run_once /\ iteration = 1)
              \/ (~ args.run_once /\ args.count > 0 /\ iteration = args.count)

C10_Witness ==
    /\ args.mode = "vpn"
    /\ ovpns = <<>>
    /\ proxies # <<>>
    /\ args.run_once
    /\ pc = "finished"
    /\ ~ Cancelled
    /\ waits = 1

\* C11: a failure of one target never stops the loop: the run ends abnormally
\* only on a log call that raises (the fatal class), and a run that ends
\* without cancellation has invoked every selected target in every iteration,
\* whatever failed on the way.
C11_FailureIsolated ==
    /\ pc = "fatal" => error = "OSError"
    /\ (pc = "finished" /\ ~ Cancelled) =>
          /\ torCalls = IF args.mode \in {"tor", "all"} THEN iteration ELSE 0
          /\ proxyCalls = IF args.mode \in {"proxy", "all"}
                             THEN iteration * Len(proxies) ELSE 0
          /\ vpnCalls = IF args.mode \in {"vpn", "all"}
                           THEN iteration * Len(ovpns) ELSE 0

\* C12: tor_newnym_via_control never returns (or raises) with a control
\* connection it opened still open.
C12_ConnectionClosed ==
    upc = "ctl_done" => sock # "open"

\* C16: SIGNAL NEWNYM is written only after an authentication response that
\* begins with "250", nothing is written after it and the AUTHENTICATE
\* command is written once; the function returns True exactly when both
\* responses begin with "250"; without a "250" authentication response it
\* does not return True and has written no SIGNAL.
C16_SignalAfterAuth ==
    /\ Len(sent) <= 2
    /\ \A i \in 1..Len(sent) :
          sent[i] = IF i = 1 THEN AuthCommand(password) ELSE SignalCommand
    /\ Len(sent) = 2 => startswith(auth_resp, OkPrefix)
    /\ upc = "ctl_done" =>
          /\ ret \in {"True", "False", "raised"}
          /\ ret = "True" <=> /\ startswith(auth_resp, OkPrefix)
                              /\ startswith(resp, OkPrefix)
          /\ ~ startswith(auth_resp, OkPrefix) => Len(sent) <= 1

C16_Witness ==
    /\ upc = "ctl_done"
    /\ ret = "True"
    /\ password = "pw"
    /\ sent = << <<"AUTHENTICATE", "pw">>, <<"SIGNAL", "NEWNYM">> >>
    /\ auth_resp = <<"2", "5", "0", " ", "O", "K">>
    /\ resp = <<"2", "5", "0">>
    /\ sock = "closed"

\* a line that holds an endpoint: not blank, and not a comment, once
\* surrounding white space is left out
IsEndpointLine(l) ==
    LET t == strip(l)
    IN  t # <<>> /\ t[1] # "#"

EndpointLines(f) ==
    LET kept == SelectSeq(f, IsEndpointLine)
    IN  [ i \in 1..Len(kept) |-> strip(kept[i]) ]

\* C13: load_proxy_list returns the endpoint lines of the file, in file
\* order and without their surrounding white space; no blank entry and no
\* entry that begins with "#" is in the result.  The list built by the loop
\* agrees with it after every line.
C13_ParsedLines ==
    upc \in {"load_loop", "load_done"} =>
        /\ loaded = EndpointLines(SubSeq(file, 1, line_no - 1))
        /\ loaded = load_proxy_list(SubSeq(file, 1, line_no - 1))
        /\ \A i \in 1..Len(loaded) :
              loaded[i] # <<>> /\ loaded[i][1] \notin {"#", " "}
        /\ upc = "load_done" => /\ line_no = Len(file) + 1
                                /\ loaded = EndpointLines(file)

C13_Witness ==
    /\ upc = "load_done"
    /\ file = << <<" ", "#", "a">>, <<" ", "b">> >>
    /\ loaded = << <<"b">> >>

NoDuplicates(seq) ==
    \A i, j \in 1..Len(seq) : i # j => seq[i] # seq[j]

\* C14: the list run_loop iterates holds no endpoint twice, and no endpoint
\* is passed to run_once_proxy twice in one iteration.
C14_NoDuplicateEndpoints ==
    /\ NoDuplicates(proxies)
    /\ NoDuplicates(used)

\* C15: an adapter invocation never begins directly after another one:
\* since the previous invocation of the run, _wait_or_stop has been called.
C15_WaitBetweenAdapters ==
    [][AdapterCalls' > AdapterCalls => lastStep # "adapter"]_vars

\* C17: a restart command is run only in a Tor cycle whose control-port
\* attempt failed and whose prompt was answered "y"; the commands of cmd_try
\* are run in their order, the next one only after the one before it failed;
\* the first that succeeds ends the fallback with ok = TRUE, and the fallback
\* ends with ok = FALSE only after the last command has failed.
C17_RestartGated ==
    /\ []((pc = "tor_restart" \/ ran > 0) =>
            /\ ctl \notin {"none", "ok"}
            /\ ans = "y"
            /\ cmd_i \in 1..Len(cmd_try)
            /\ ran <= cmd_i)
    /\ [](pc = "tor_restart" => ran < cmd_i)
    /\ [][ran' > ran => pc = "tor_restart" /\ ran' = ran + 1]_vars
    /\ [][(pc = "tor_restart" /\ cmd_i' # cmd_i) =>
            /\ cmd_i' = cmd_i + 1
            /\ pc' = "tor_restart"
            /\ ~ ok']_vars
    /\ [][(pc = "tor_restart" /\ pc' = "tor_settle") =>
            ok' /\ ran' = ran + 1 /\ cmd_i' = cmd_i]_vars
    /\ [][(pc = "tor_restart" /\ pc' = "proxy_sel") =>
            ~ ok' /\ cmd_i = Len(cmd_try)]_vars

C17_Witness ==
    /\ pc = "tor_settle"
    /\ ok
    /\ ctl = "auth_rejected"
    /\ ans = "y"
    /\ cmd_i = 2
    /\ ran = 2

\* C18: at most one openvpn subprocess started by the run is alive, and none
\* is alive when an adapter invocation begins.
C18_OneVpnAlive ==
    /\ alive <= 1
    /\ pc \in {"tor_before", "proxy_before", "vpn_before"} => alive = 0

Called(method) == \E i \in 1..Len(calls) : calls[i][1] = method

\* C19: stop_process calls terminate first, waits no longer than the
\* timeout, calls kill only after the wait has timed out, and returns
\* normally after a timeout with "VPN process killed." logged.
C19_GracefulThenKill ==
    /\ calls # <<>> => calls[1][1] = "terminate"
    /\ waited <= TermTimeout
    /\ Called("kill") =>
          /\ waited = TermTimeout
          /\ \E i \in 1..Len(calls) : calls[i] = <<"wait", "TimeoutExpired">>
    /\ (upc = "stop_done" /\ ret = "None" /\ Called("kill")) =>
          "VPN process killed." \in ulog

\* C20: the flag changes only in a step of the signal handler and is never
\* cleared; at most one adapter invocation begins with the flag set; and a
\* run whose flag is set reaches its finished state unless an external
\* operation raised instead of returning.
C20_StopFlag ==
    /\ [][stop_event' # stop_event => Signal]_vars
    /\ [][stop_event => stop_event']_vars
    /\ [](afterStop <= 1)
    /\ (stop_event ~> (pc = "finished" \/ error # "none"))

C20_Witness ==
    /\ pc = "finished"
    /\ stop_event
    /\ afterStop = 1
    /\ torCalls = 1
    /\ args.mode = "all"
    /\ proxies # <<>>
    /\ proxyCalls = 0

====
